---------------------------- MODULE Spec2Model ----------------------------
(***************************************************************************)
(* A model of merkle_file_server: MerkleTree::new (chunking, leaf padding, *)
(* leaf hashing, the queue-driven bottom-up sweep of populate_tree), the   *)
(* proof generators (get_sibling, get_uncle, uncle_traversal, proof) and   *)
(* the two HTTP handlers (get_hashes, get_piece) over the registry that    *)
(* main builds.                                                            *)
(*                                                                         *)
(* Byte vectors (Vec<u8>) are sequences of integers in a run-length form:  *)
(*   <<0, n>>        n zero bytes                                          *)
(*   <<i + 1, n>>    n (non-zero) content bytes of chunk i of the file     *)
(*   <<-1>> \o x \o <<-2>>   the 32 bytes of SHA-256(x)                    *)
(* so equality of two vectors is equality of the bytes they stand for and  *)
(* SHA-256 is injective (collision free).  Strings are sequences too:      *)
(*   <<-3>> \o x     hex::encode(x)                                        *)
(*   <<-4>> \o x     base64::encode(x)                                     *)
(*   a sequence of ASCII codes   a string taken from the request path      *)
(* usize values that can wrap are sets of bit positions below USIZE_BITS.   *)
(***************************************************************************)
EXTENDS Integers, Sequences, FiniteSets, TLC

VARIABLES
    file,                   \* the input file: [size, zeros]
    overflow_checks,        \* build profile: TRUE = overflow panics (debug)
    pc,                     \* position of the main thread
    gnp,                    \* frame of get_next_power_of_two
    wrapped,                \* history: some usize operation wrapped around
    pieces,                 \* MerkleTree::new: pieces
    total_non_empty_pieces, \* MerkleTree::new: total_non_empty_pieces
    total_nodes,            \* MerkleTree::new: total_nodes (usize bits)
    result_data,            \* MerkleTree::new: result_data (populate's data)
    base64_map,             \* MerkleTree::new: base64_map
    queue,                  \* populate_tree: queue
    visited,                \* populate_tree: visited
    write_log,              \* history: the indices assigned at line 54
    tree,                   \* the MerkleTree that new returned
    trees,                  \* main: the registry
    app_data,               \* per worker: the clone handed to App::app_data
    resp                    \* the last answer given to a caller

vars == <<file, overflow_checks, pc, gnp, wrapped, pieces,
          total_non_empty_pieces, total_nodes, result_data, base64_map,
          queue, visited, write_log, tree, trees, app_data, resp>>

(***************************************************************************)
(* Bounds of the model and constants of the program.                       *)
(***************************************************************************)
MaxPieces == 5
MaxTopBit == 34

CHUNK_SIZE == 1024
USIZE_BITS == 64

Workers == {"w1", "w2"}

(***************************************************************************)
(* usize arithmetic.  A usize is the set of the positions of its 1 bits    *)
(* (bit 0 is the least significant): {} is 0, {0, 3} is 9, Bits is         *)
(* usize::MAX.                                                             *)
(***************************************************************************)
Bits == 0 .. (USIZE_BITS - 1)

\* the bits of the numbers the model also holds as integers
SmallBits == 0 .. 29

USizeOf(n) == {i \in SmallBits : (n \div (2 ^ i)) % 2 = 1}

RECURSIVE NatFrom(_, _)
NatFrom(v, i) ==
    IF i \notin SmallBits THEN 0
    ELSE (IF i \in v THEN 1 ELSE 0) + 2 * NatFrom(v, i + 1)

NatOf(v) == NatFrom(v, 0)

Lowest(v) == CHOOSE k \in v : \A m \in v : k <= m

Highest(v) == CHOOSE k \in v : \A m \in v : k >= m

\* num >> k
ShiftRight(v, k) == {i - k : i \in {j \in v : j >= k}}

\* a | b
BitOr(a, b) == a \cup b

\* v - 1, wrapping: [val, overflow]
SubOne(v) ==
    IF v = {} THEN [val |-> Bits, overflow |-> TRUE]
    ELSE [val |-> (v \ {Lowest(v)}) \cup (0 .. (Lowest(v) - 1)), overflow |-> FALSE]

\* v + 1, wrapping: [val, overflow]
AddOne(v) ==
    IF v = Bits THEN [val |-> {}, overflow |-> TRUE]
    ELSE LET j == Lowest(Bits \ v)
         IN  [val |-> (v \ (0 .. j)) \cup {j}, overflow |-> FALSE]

\* 2 * v, wrapping: [val, overflow]
TimesTwo(v) ==
    [val |-> {i + 1 : i \in v} \cap Bits, overflow |-> (USIZE_BITS - 1) \in v]

\* a < b
USizeLess(a, b) ==
    a # b /\ Highest((a \ b) \cup (b \ a)) \in b

IsPowerOfTwo(v) == Cardinality(v) = 1

(***************************************************************************)
(* Byte vectors, digests and encodings.                                    *)
(***************************************************************************)
EmptyVec == << >>

ZeroRun(n) == IF n = 0 THEN << >> ELSE <<0, n>>

DataRun(i, n) == IF n = 0 THEN << >> ELSE <<i + 1, n>>

\* iter::repeat(0u8).take(32).collect()
zero_value == ZeroRun(32)

Sha256(bytes) == <<-1>> \o bytes \o <<-2>>

hex_encode(bytes) == <<-3>> \o bytes

base64_encode(bytes) == <<-4>> \o bytes

\* the number of bytes of a vector of runs
RECURSIVE ByteLen(_)
ByteLen(v) == IF Len(v) < 2 THEN 0 ELSE v[2] + ByteLen(SubSeq(v, 3, Len(v)))

\* result.push(0u8), n times
PushZeros(v, n) ==
    IF n = 0 THEN v
    ELSE IF Len(v) >= 2 /\ v[Len(v) - 1] = 0
         THEN SubSeq(v, 1, Len(v) - 1) \o <<v[Len(v)] + n>>
         ELSE v \o ZeroRun(n)

pad_vec(data) ==
    IF ByteLen(data) < CHUNK_SIZE THEN PushZeros(data, CHUNK_SIZE - ByteLen(data))
    ELSE data

\* buffer.chunks(CHUNK_SIZE): chunk i of a buffer of `size` bytes
ChunkCount(size) == (size + CHUNK_SIZE - 1) \div CHUNK_SIZE

Chunk(f, i) ==
    LET n == IF (i + 1) * CHUNK_SIZE <= f.size THEN CHUNK_SIZE
             ELSE f.size - i * CHUNK_SIZE
    IN  IF f.zeros THEN ZeroRun(n) ELSE DataRun(i, n)

split_file_to_chunks(f) ==
    [k \in 1 .. ChunkCount(f.size) |-> pad_vec(Chunk(f, k - 1))]

hash_leaf(data) == IF data # zero_value THEN Sha256(data) ELSE data

\* a Vec indexed from 0
At(v, i) == v[i + 1]

InBounds(v, i) == i >= 0 /\ i < Len(v)


(***************************************************************************)
(* Option<T>: None is the empty sequence, Some(x) is <<x>>.                *)
(***************************************************************************)
None == << >>

Some(x) == <<x>>

(***************************************************************************)
(* merkle_tree.rs: index arithmetic of the 1-indexed array.                *)
(***************************************************************************)
\* get_uncle with the two branches exchanged: the parent instead of its sibling
UncleSameSide(child_node) ==
    LET parent == child_node \div 2
        grandparent == parent \div 2
    IN  IF parent = 0 \/ grandparent = 0 THEN None
        ELSE IF parent % 2 = 0 THEN Some(grandparent * 2)
        ELSE Some(grandparent * 2 + 1)

get_uncle(child_node) ==
    LET parent == child_node \div 2
        grandparent == parent \div 2
    IN  IF parent = 0 \/ grandparent = 0 THEN None
        ELSE IF parent % 2 = 0 THEN Some(grandparent * 2 + 1)
        ELSE Some(grandparent * 2)

get_sibling(node) == IF node % 2 = 0 THEN node + 1 ELSE node - 1

\* the children hashed right child first
HashChildrenSwapped(left, right) == Sha256(right \o left)

\* lines 48-53: left.append(&mut right); hasher.update(left)
HashChildren(left, right) == Sha256(left \o right)

\* line 47: both children lie inside the array
HasChildren(data, index) == 2 * index < Len(data) /\ 2 * index + 1 < Len(data)

\* line 41: queue.pop_front() takes the oldest entry
PopFront(q) == [index |-> Head(q), rest |-> Tail(q)]

\* the sweep without its deduplication set
NeverVisited(seen, index) == FALSE

\* line 42: visited.contains(&index)
IsVisited(seen, index) == index \in seen

\* the cascade of lines 27-31: num |= num >> k
Shifts == <<1, 2, 4, 8, 16>>

(***************************************************************************)
(* The inputs.                                                             *)
(***************************************************************************)
FileSizes ==
    {0} \cup {k * CHUNK_SIZE + r : k \in 0 .. (MaxPieces - 1), r \in {1, 32, CHUNK_SIZE}}

Files == [size : FileSizes, zeros : BOOLEAN]

NoTree ==
    [nodes |-> << >>, total_non_empty_pieces |-> 0, total_nodes |-> USizeOf(0),
     piece_data |-> << >>]

NoFrame == [amount |-> USizeOf(0), num |-> USizeOf(0), i |-> 0, ret |-> "none"]

NoResp ==
    [op |-> "none", hash |-> << >>, index |-> << >>, status |-> "none",
     content |-> << >>, proof |-> << >>, pieces |-> 0, value |-> 0]

NoApp == [up |-> FALSE, trees |-> << >>]

Init ==
    /\ file \in Files
    /\ overflow_checks \in BOOLEAN
    /\ pc = "split"
    /\ gnp = NoFrame
    /\ wrapped = FALSE
    /\ pieces = << >>
    /\ total_non_empty_pieces = 0
    /\ total_nodes = USizeOf(0)
    /\ result_data = << >>
    /\ base64_map = << >>
    /\ queue = << >>
    /\ visited = {}
    /\ write_log = << >>
    /\ tree = NoTree
    /\ trees = << >>
    /\ app_data = [w \in Workers |-> NoApp]
    /\ resp = NoResp

(***************************************************************************)
(* file_utils.rs: get_next_power_of_two, one action per statement.         *)
(***************************************************************************)
\* lines 25-26: let mut num = amount; num -= 1
GnpDec ==
    /\ pc = "gnp_dec"
    /\ LET r == SubOne(gnp.amount)
       IN  IF r.overflow /\ overflow_checks
           THEN /\ pc' = "panicked"
                /\ UNCHANGED <<gnp, wrapped>>
           ELSE /\ pc' = "gnp_or"
                /\ gnp' = [gnp EXCEPT !.num = r.val, !.i = 1]
                /\ wrapped' = (wrapped \/ r.overflow)
    /\ UNCHANGED <<file, overflow_checks, pieces, total_non_empty_pieces,
                   total_nodes, result_data, base64_map, queue, visited,
                   write_log, tree, trees, app_data, resp>>

\* lines 27-31: num |= num >> Shifts[i]
GnpOr ==
    /\ pc = "gnp_or"
    /\ gnp' = [gnp EXCEPT !.num = BitOr(gnp.num, ShiftRight(gnp.num, Shifts[gnp.i])),
                          !.i = gnp.i + 1]
    /\ pc' = IF gnp.i = Len(Shifts) THEN "gnp_inc" ELSE "gnp_or"
    /\ UNCHANGED <<file, overflow_checks, wrapped, pieces, total_non_empty_pieces,
                   total_nodes, result_data, base64_map, queue, visited,
                   write_log, tree, trees, app_data, resp>>

\* lines 32-33: num += 1; num
GnpInc ==
    /\ pc = "gnp_inc"
    /\ LET r == AddOne(gnp.num)
       IN  IF r.overflow /\ overflow_checks
           THEN /\ pc' = "panicked"
                /\ UNCHANGED <<gnp, wrapped>>
           ELSE /\ pc' = gnp.ret
                /\ gnp' = [gnp EXCEPT !.num = r.val]
                /\ wrapped' = (wrapped \/ r.overflow)
    /\ UNCHANGED <<file, overflow_checks, pieces, total_non_empty_pieces,
                   total_nodes, result_data, base64_map, queue, visited,
                   write_log, tree, trees, app_data, resp>>

(***************************************************************************)
(* merkle_tree.rs: MerkleTree::new.                                        *)
(***************************************************************************)
\* lines 82-83
NewSplit ==
    /\ pc = "split"
    /\ pieces' = split_file_to_chunks(file)
    /\ total_non_empty_pieces' = Len(pieces')
    /\ pc' = "pad_call"
    /\ UNCHANGED <<file, overflow_checks, gnp, wrapped, total_nodes, result_data,
                   base64_map, queue, visited, write_log, tree, trees, app_data,
                   resp>>

\* file_utils.rs line 17: the call get_next_power_of_two(data.len())
PadCall ==
    /\ pc = "pad_call"
    /\ gnp' = [amount |-> USizeOf(Len(pieces)), num |-> USizeOf(Len(pieces)),
               i |-> 0, ret |-> "pad_push"]
    /\ pc' = "gnp_dec"
    /\ UNCHANGED <<file, overflow_checks, wrapped, pieces, total_non_empty_pieces,
                   total_nodes, result_data, base64_map, queue, visited,
                   write_log, tree, trees, app_data, resp>>

\* file_utils.rs lines 18-21: push sentinels while data.len() < next_power_of_two
PadPush ==
    /\ pc = "pad_push"
    /\ LET next_power_of_two == NatOf(gnp.num)
           missing == IF Len(pieces) < next_power_of_two
                      THEN next_power_of_two - Len(pieces) ELSE 0
       IN  pieces' = pieces \o [k \in 1 .. missing |-> zero_value]
    /\ pc' = "fill"
    /\ UNCHANGED <<file, overflow_checks, gnp, wrapped, total_non_empty_pieces,
                   total_nodes, result_data, base64_map, queue, visited,
                   write_log, tree, trees, app_data, resp>>

\* lines 85-95: total_nodes, the array, the content map and the leaves
NewFill ==
    /\ pc = "fill"
    /\ LET twice == TimesTwo(USizeOf(Len(pieces)))
           less == SubOne(twice.val)
           slots == AddOne(less.val)
           overflow == twice.overflow \/ less.overflow \/ slots.overflow
           leaf_layer_length == Len(pieces)
           empty == [k \in 1 .. NatOf(slots.val) |-> EmptyVec]
       IN  IF overflow /\ overflow_checks
           THEN /\ pc' = "panicked"
                /\ UNCHANGED <<wrapped, total_nodes, result_data, base64_map>>
           ELSE /\ wrapped' = (wrapped \/ overflow)
                /\ total_nodes' = less.val
                /\ base64_map' = [i \in 0 .. (total_non_empty_pieces - 1) |->
                                     base64_encode(pieces[i + 1])]
                /\ IF \A i \in 0 .. (Len(pieces) - 1) :
                          InBounds(empty, i + leaf_layer_length)
                   THEN /\ result_data' =
                              [k \in 1 .. Len(empty) |->
                                  IF k - 1 >= leaf_layer_length
                                  THEN hash_leaf(pieces[k - leaf_layer_length])
                                  ELSE EmptyVec]
                        /\ pc' = "populate"
                   ELSE /\ result_data' = empty
                        /\ pc' = "panicked"
    /\ UNCHANGED <<file, overflow_checks, gnp, pieces, total_non_empty_pieces,
                   queue, visited, write_log, tree, trees, app_data, resp>>

\* lines 33-39: the queue starts with the leaf indices
PopulateInit ==
    /\ pc = "populate"
    /\ queue' = [k \in 1 .. Len(pieces) |-> (k - 1) + Len(pieces)]
    /\ visited' = {}
    /\ pc' = "populate_loop"
    /\ UNCHANGED <<file, overflow_checks, gnp, wrapped, pieces,
                   total_non_empty_pieces, total_nodes, result_data, base64_map,
                   write_log, tree, trees, app_data, resp>>

\* lines 41-58: one turn of the while loop
PopulateStep ==
    /\ pc = "populate_loop"
    /\ queue # << >>
    /\ LET p == PopFront(queue)
           index == p.index
       IN  IF IsVisited(visited, index)
           THEN /\ queue' = p.rest
                /\ UNCHANGED <<visited, result_data, write_log>>
           ELSE /\ visited' = visited \cup {index}
                /\ IF HasChildren(result_data, index)
                   THEN /\ result_data' =
                              [result_data EXCEPT ![index + 1] =
                                  HashChildren(At(result_data, 2 * index),
                                               At(result_data, 2 * index + 1))]
                        /\ write_log' = Append(write_log, index)
                   ELSE UNCHANGED <<result_data, write_log>>
                /\ queue' = IF index \div 2 > 0 THEN Append(p.rest, index \div 2)
                            ELSE p.rest
    /\ UNCHANGED <<file, overflow_checks, pc, gnp, wrapped, pieces,
                   total_non_empty_pieces, total_nodes, base64_map, tree, trees,
                   app_data, resp>>

\* line 41 with the queue empty, then lines 99-104: new returns the tree
NewReturn ==
    /\ pc = "populate_loop"
    /\ queue = << >>
    /\ tree' = [nodes |-> result_data,
                total_non_empty_pieces |-> total_non_empty_pieces,
                total_nodes |-> total_nodes,
                piece_data |-> base64_map]
    /\ pc' = "built"
    /\ UNCHANGED <<file, overflow_checks, gnp, wrapped, pieces,
                   total_non_empty_pieces, total_nodes, result_data, base64_map,
                   queue, visited, write_log, trees, app_data, resp>>

(***************************************************************************)
(* merkle_tree.rs: uncle_traversal and proof.  A call answers              *)
(* [status, val]: status is "Some", "None" or "panic".                     *)
(***************************************************************************)
Answer(status, val) == [status |-> status, val |-> val]

\* lines 114-117: while let Some(uncle) = get_uncle(node)
RECURSIVE UncleChain(_, _)
UncleChain(nodes, node) ==
    LET uncle == get_uncle(node)
    IN  IF uncle = None THEN Answer("Some", << >>)
        ELSE IF ~InBounds(nodes, uncle[1]) THEN Answer("panic", << >>)
        ELSE LET rest == UncleChain(nodes, uncle[1])
             IN  Answer(rest.status, <<hex_encode(At(nodes, uncle[1]))>> \o rest.val)

\* line 108: piece_number > self.total_non_empty_pieces - 1
UncleOutOfRange(t, piece_number) ==
    t.total_non_empty_pieces # 0 /\ piece_number > t.total_non_empty_pieces - 1

uncle_traversal(t, piece_number, checks) ==
    IF t.total_non_empty_pieces = 0 /\ checks THEN Answer("panic", << >>)
    ELSE IF UncleOutOfRange(t, piece_number) THEN Answer("None", << >>)
    ELSE UncleChain(t.nodes, Len(t.nodes) \div 2 + piece_number)

\* line 122: piece_number > self.total_non_empty_pieces
ProofOutOfRange(t, piece_number) == piece_number > t.total_non_empty_pieces

\* line 128: the first element of the proof
FirstProofIndex(node_index) == get_sibling(node_index)

proof(t, piece_number, checks) ==
    IF ProofOutOfRange(t, piece_number) THEN Answer("None", << >>)
    ELSE LET node_index == Len(t.nodes) \div 2 + piece_number
             first == FirstProofIndex(node_index)
         IN  IF ~InBounds(t.nodes, first) THEN Answer("panic", << >>)
             ELSE LET uncles == uncle_traversal(t, piece_number, checks)
                      head == <<hex_encode(At(t.nodes, first))>>
                  IN  IF uncles.status = "panic" THEN Answer("panic", << >>)
                      ELSE IF uncles.status = "Some"
                           THEN Answer("Some", head \o uncles.val)
                           ELSE Answer("Some", head)

\* self.piece_data.get(&index)
piece_data_get(t, index) ==
    IF index \in DOMAIN t.piece_data THEN Answer("Some", t.piece_data[index])
    ELSE Answer("None", << >>)

(***************************************************************************)
(* Strings of the request path and str::parse::<usize>.                    *)
(***************************************************************************)
RECURSIVE Decimal(_)
Decimal(n) == IF n < 10 THEN <<48 + n>> ELSE Decimal(n \div 10) \o <<48 + (n % 10)>>

RECURSIVE DigitsValue(_)
DigitsValue(d) ==
    IF d = << >> THEN 0
    ELSE 10 * DigitsValue(SubSeq(d, 1, Len(d) - 1)) + (d[Len(d)] - 48)

parse_usize(s) ==
    IF s = << >> THEN None
    ELSE LET digits == IF s[1] = 43 THEN Tail(s) ELSE s
         IN  IF digits = << >> \/ \E k \in 1 .. Len(digits) : digits[k] \notin 48 .. 57
             THEN None
             ELSE Some(DigitsValue(digits))

\* "x", "-1", "1x", "+1" and the index of test_pieces_wrong_piece_number
\* (the route's {pieceIndex} segment is never empty)
OtherStrings == {<<120>>, <<45, 49>>, <<49, 120>>, <<43, 49>>, Decimal(43232)}

IndexStrings(t) == {Decimal(n) : n \in 0 .. (Len(t.nodes) + 1)} \cup OtherStrings

\* "asdf", the hash of test_pieces_wrong_hash
WrongHash == <<97, 115, 100, 102>>

Indices(t) == 0 .. (Len(t.nodes) + 1)

(***************************************************************************)
(* handlers.rs.  A handler answers a record shaped like NoResp: status is  *)
(* "200", "400" or "panic".                                                *)
(***************************************************************************)
get_hashes(reg) ==
    IF DOMAIN reg = {} THEN [NoResp EXCEPT !.op = "get_hashes", !.status = "panic"]
    ELSE LET current_tree == reg[CHOOSE k \in DOMAIN reg : TRUE]
         IN  IF ~InBounds(current_tree.nodes, 1)
             THEN [NoResp EXCEPT !.op = "get_hashes", !.status = "panic"]
             ELSE [NoResp EXCEPT !.op = "get_hashes", !.status = "200",
                                 !.hash = hex_encode(At(current_tree.nodes, 1)),
                                 !.pieces = current_tree.total_non_empty_pieces]

\* line 62: piece_index_str.parse::<usize>().unwrap()
PieceIndexOf(piece_index_str) == parse_usize(piece_index_str)

get_piece(reg, hash_index, piece_index_str, checks) ==
    LET req == [NoResp EXCEPT !.op = "get_piece", !.hash = hash_index,
                              !.index = piece_index_str]
        piece_index_num == PieceIndexOf(piece_index_str)
    IN  IF piece_index_num = None THEN [req EXCEPT !.status = "panic"]
        ELSE IF hash_index \notin DOMAIN reg THEN [req EXCEPT !.status = "400"]
        ELSE LET current_tree == reg[hash_index]
                 n == piece_index_num[1]
             IN  IF n \notin DOMAIN current_tree.piece_data
                 THEN [req EXCEPT !.status = "400"]
                 ELSE LET p == proof(current_tree, n, checks)
                      IN  IF p.status # "Some" THEN [req EXCEPT !.status = "panic"]
                          ELSE [req EXCEPT !.status = "200",
                                           !.content = current_tree.piece_data[n],
                                           !.proof = p.val]

(***************************************************************************)
(* main.rs and the callers of the built tree.                              *)
(***************************************************************************)
\* main.rs line 24: trees.insert(hex::encode(&tree.nodes[1]), tree)
MainInsert ==
    /\ pc = "built"
    /\ IF InBounds(tree.nodes, 1)
       THEN /\ trees' = (hex_encode(At(tree.nodes, 1)) :> tree)
            /\ pc' = "serving"
       ELSE /\ pc' = "panicked"
            /\ UNCHANGED trees
    /\ UNCHANGED <<file, overflow_checks, gnp, wrapped, pieces,
                   total_non_empty_pieces, total_nodes, result_data, base64_map,
                   queue, visited, write_log, tree, app_data, resp>>

\* main.rs lines 26-28: the factory closure runs once per worker
WorkerStart(w) ==
    /\ pc = "serving"
    /\ ~app_data[w].up
    /\ app_data' = [app_data EXCEPT ![w] = [up |-> TRUE, trees |-> trees]]
    /\ UNCHANGED <<file, overflow_checks, pc, gnp, wrapped, pieces,
                   total_non_empty_pieces, total_nodes, result_data, base64_map,
                   queue, visited, write_log, tree, trees, resp>>

Unread == <<file, overflow_checks, pc, gnp, wrapped, pieces,
            total_non_empty_pieces, total_nodes, result_data, base64_map,
            queue, visited, write_log>>

\* a read that takes the content out of the map it reads
DrainedTree(t) == [t EXCEPT !.piece_data = << >>]

\* &self and web::Data: what a read leaves of a tree it was handed
KeptTree(t) == t

KeptRegistry(reg) == [k \in DOMAIN reg |-> KeptTree(reg[k])]

\* GET /hashes
GetHashes(w) ==
    /\ app_data[w].up
    /\ resp' = get_hashes(app_data[w].trees)
    /\ app_data' = [app_data EXCEPT ![w].trees = KeptRegistry(@)]
    /\ UNCHANGED <<tree, trees>>
    /\ UNCHANGED Unread

\* GET /piece/{hashId}/{pieceIndex}
GetPiece(w) ==
    /\ app_data[w].up
    /\ \E hash_index \in DOMAIN app_data[w].trees \cup {WrongHash} :
       \E piece_index_str \in IndexStrings(tree) :
          resp' = get_piece(app_data[w].trees, hash_index, piece_index_str,
                            overflow_checks)
    /\ app_data' = [app_data EXCEPT ![w].trees = KeptRegistry(@)]
    /\ UNCHANGED <<tree, trees>>
    /\ UNCHANGED Unread

Called(op, n, a) ==
    [NoResp EXCEPT !.op = op, !.index = Decimal(n), !.status = a.status]

\* tree.proof(i), as the tests call it
CallProof ==
    /\ pc \in {"built", "serving"}
    /\ \E i \in Indices(tree) :
          LET a == proof(tree, i, overflow_checks)
          IN  resp' = [Called("proof", i, a) EXCEPT !.proof = a.val]
    /\ tree' = KeptTree(tree)
    /\ UNCHANGED <<trees, app_data>>
    /\ UNCHANGED Unread

\* tree.uncle_traversal(i), as the tests call it
CallUncleTraversal ==
    /\ pc \in {"built", "serving"}
    /\ \E i \in Indices(tree) :
          LET a == uncle_traversal(tree, i, overflow_checks)
          IN  resp' = [Called("uncle_traversal", i, a) EXCEPT !.proof = a.val]
    /\ tree' = KeptTree(tree)
    /\ UNCHANGED <<trees, app_data>>
    /\ UNCHANGED Unread

\* tree.piece_data.get(&i), as the tests call it
CallPieceData ==
    /\ pc \in {"built", "serving"}
    /\ \E i \in Indices(tree) :
          LET a == piece_data_get(tree, i)
          IN  resp' = [Called("piece_data", i, a) EXCEPT !.content = a.val]
    /\ tree' = KeptTree(tree)
    /\ UNCHANGED <<trees, app_data>>
    /\ UNCHANGED Unread

Next ==
    \/ NewSplit
    \/ PadCall
    \/ GnpDec
    \/ GnpOr
    \/ GnpInc
    \/ PadPush
    \/ NewFill
    \/ PopulateInit
    \/ PopulateStep
    \/ NewReturn
    \/ MainInsert
    \/ \E w \in Workers : WorkerStart(w)
    \/ \E w \in Workers : GetHashes(w)
    \/ \E w \in Workers : GetPiece(w)
    \/ CallProof
    \/ CallUncleTraversal
    \/ CallPieceData

Spec == Init /\ [][Next]_vars

(***************************************************************************)
(* The pure functions called on their own, as the unit tests call them:    *)
(* get_next_power_of_two(amount) and get_uncle(x).                         *)
(***************************************************************************)
\* 2^k + j, for j < 2^k
TopPlus(k, j) == {k} \cup USizeOf(j)

UnitAmounts ==
    {USizeOf(n) : n \in 0 .. (2 * MaxPieces)}
        \cup {TopPlus(k, j) : k \in 4 .. MaxTopBit, j \in 0 .. 3}

NodeIndices == 0 .. (4 * MaxPieces)

UnitInit ==
    /\ file = [size |-> 0, zeros |-> FALSE]
    /\ overflow_checks \in BOOLEAN
    /\ pc = "gnp_dec"
    /\ \E amount \in UnitAmounts :
          gnp = [amount |-> amount, num |-> amount, i |-> 0, ret |-> "unit_done"]
    /\ wrapped = FALSE
    /\ pieces = << >>
    /\ total_non_empty_pieces = 0
    /\ total_nodes = USizeOf(0)
    /\ result_data = << >>
    /\ base64_map = << >>
    /\ queue = << >>
    /\ visited = {}
    /\ write_log = << >>
    /\ tree = NoTree
    /\ trees = << >>
    /\ app_data = [w \in Workers |-> NoApp]
    /\ resp = NoResp

\* get_uncle(x), as test_uncle_root .. test_uncle_uncle_bottom_layer3 call it
CallGetUncle ==
    /\ pc = "unit_done"
    /\ \E x \in NodeIndices :
          LET u == get_uncle(x)
          IN  resp' = [NoResp EXCEPT !.op = "get_uncle", !.index = Decimal(x),
                                     !.status = IF u = None THEN "None" ELSE "Some",
                                     !.value = IF u = None THEN 0 ELSE u[1]]
    /\ UNCHANGED <<tree, trees, app_data>>
    /\ UNCHANGED Unread

UnitNext ==
    \/ GnpDec
    \/ GnpOr
    \/ GnpInc
    \/ CallGetUncle

UnitSpec == UnitInit /\ [][UnitNext]_vars

(***************************************************************************)
(* Properties.                                                             *)
(***************************************************************************)
Built == pc \in {"built", "serving"}

\* the index a direct call was made with
RespIndex == DigitsValue(resp.index)

LeafLayer(t) == Len(t.nodes) \div 2

hex_decode(s) == Tail(s)

\* the verifier: climb from node idx, the proof element is the sibling
RECURSIVE Replay(_, _, _)
Replay(current, idx, elements) ==
    IF elements = << >> THEN current
    ELSE LET p == hex_decode(Head(elements))
             up == IF idx % 2 = 0 THEN Sha256(current \o p) ELSE Sha256(p \o current)
         IN  Replay(up, idx \div 2, Tail(elements))

ReplaysToRoot(t, i, elements) ==
    Replay(At(t.nodes, LeafLayer(t) + i), LeafLayer(t) + i, elements) = At(t.nodes, 1)

\* C1: for every piece index i < pieceCount of a built tree, proof(i) is
\* Some(list) and replaying the list from the leaf digest at node L + i,
\* left/right by the parity of the climbing index, gives nodes[1]; for
\* every pieceCount >= 1, pieceCount = 1 included.
C1_ProofReplaysToRoot ==
    (resp.op = "proof" /\ RespIndex < tree.total_non_empty_pieces)
        => /\ resp.status = "Some"
           /\ ReplaysToRoot(tree, RespIndex, resp.proof)

\* The same for the trees of two pieces and more (L >= 2).
ProofReplaysFromTwoPieces ==
    (resp.op = "proof" /\ RespIndex < tree.total_non_empty_pieces
        /\ tree.total_non_empty_pieces >= 2)
        => /\ resp.status = "Some"
           /\ ReplaysToRoot(tree, RespIndex, resp.proof)

\* C2: on a built tree (of one piece or more), piece_data.get, proof and
\* uncle_traversal all answer None for every index >= pieceCount, and none
\* of them panics.
C2_OutOfRangeIsNone ==
    (resp.op \in {"proof", "uncle_traversal", "piece_data"}
        /\ tree.total_non_empty_pieces >= 1
        /\ RespIndex >= tree.total_non_empty_pieces)
        => resp.status = "None"

\* The part of C2 that the code keeps: piece_data.get and uncle_traversal.
LookupAndUnclesOutOfRangeIsNone ==
    (resp.op \in {"uncle_traversal", "piece_data"}
        /\ tree.total_non_empty_pieces >= 1
        /\ RespIndex >= tree.total_non_empty_pieces)
        => resp.status = "None"

\* C3: with a zero-length file no usize operation overflows (neither the
\* panic of a checked build nor the wrap-around of an unchecked one) and
\* the program does not panic.
C3_ZeroLengthFileHandled ==
    file.size = 0 => (~wrapped /\ pc # "panicked")

\* C4: for a file of exactly one piece, L = 1, the array has 2 slots and
\* proof(0) is the one-element list holding the hex of the 32 zero bytes.
C4_SinglePieceProofIsSentinel ==
    (resp.op = "proof" /\ tree.total_non_empty_pieces = 1 /\ RespIndex = 0)
        => /\ Len(pieces) = 1
           /\ Len(tree.nodes) = 2
           /\ resp.status = "Some"
           /\ resp.proof = <<hex_encode(zero_value)>>

\* The part of C4 that the code keeps: L = 1 and 2 slots.
SinglePieceTreeHasTwoSlots ==
    (Built /\ tree.total_non_empty_pieces = 1)
        => (Len(pieces) = 1 /\ Len(tree.nodes) = 2)

IsPowerOfTwoNat(n) == \E k \in 0 .. (2 * MaxPieces) : n = 2 ^ k

\* the tree part of C5
TreeShape ==
    (Built /\ file.size > 0) =>
        LET n == tree.total_non_empty_pieces
            L == Len(pieces)
        IN  /\ n * 1024 >= file.size /\ (n - 1) * 1024 < file.size
            /\ IsPowerOfTwoNat(L) /\ L >= n /\ (L = 1 \/ L \div 2 < n)
            /\ tree.total_nodes = USizeOf(2 * L - 1)
            /\ Len(tree.nodes) = 2 * L
            /\ At(tree.nodes, 0) = EmptyVec
            /\ \A i \in 0 .. (n - 1) :
                  At(tree.nodes, L + i) = Sha256(pad_vec(Chunk(file, i)))
            /\ \A i \in n .. (L - 1) : At(tree.nodes, L + i) = zero_value

\* the leaf-layer length part of C5, where get_next_power_of_two returns
SmallestPowerOfTwo ==
    (pc \in {"pad_push", "unit_done"} /\ gnp.amount # USizeOf(0)) =>
        /\ IsPowerOfTwo(gnp.num)
        /\ ~USizeLess(gnp.num, gnp.amount)
        /\ USizeLess(ShiftRight(gnp.num, 1), gnp.amount)

\* C5: for every non-empty file, total_non_empty_pieces = ceil(size / 1024),
\* L is the smallest power of two >= pieceCount (1 for one piece),
\* total_nodes = 2L - 1, the array has 2L slots, slot 0 is empty and the
\* leaves fill [L, 2L) in piece order, the padding leaves last.
C5_TreeDimensions == TreeShape /\ SmallestPowerOfTwo

\* the root computed from the leaf digests alone
RECURSIVE RootOf(_)
RootOf(leaves) ==
    IF Len(leaves) = 1 THEN leaves[1]
    ELSE LET half == Len(leaves) \div 2
         IN  Sha256(RootOf(SubSeq(leaves, 1, half))
                        \o RootOf(SubSeq(leaves, half + 1, Len(leaves))))

\* C6: in a tree that new returned, every node i in [1, L) holds
\* SHA-256(nodes[2i] ++ nodes[2i+1]), left child first, and so the root is
\* the fold of the ordered leaf digests.
C6_InternalNodesHashChildren ==
    (Built /\ Len(tree.nodes) >= 2) =>
        LET L == LeafLayer(tree)
        IN  /\ \A i \in 1 .. (L - 1) :
                  At(tree.nodes, i) =
                      Sha256(At(tree.nodes, 2 * i) \o At(tree.nodes, 2 * i + 1))
            /\ At(tree.nodes, 1) = RootOf(SubSeq(tree.nodes, L + 1, 2 * L))

C6_Witness ==
    /\ pc = "built"
    /\ tree.total_non_empty_pieces = 3
    /\ Len(tree.nodes) = 8
    /\ ~file.zeros

\* a string that names piece n
Names(str, n) == str = Decimal(n) \/ str = <<43>> \o Decimal(n)

\* C7: get_piece answers a client error when the root hash is no key of
\* the registry or the index names no piece of the selected tree, and never
\* panics; otherwise it answers the stored content of the piece and
\* proof(index) of that tree.
C7_PieceRequestAnswered ==
    resp.op = "get_piece" =>
        IF /\ resp.hash \in DOMAIN trees
           /\ \E n \in 0 .. (tree.total_non_empty_pieces - 1) : Names(resp.index, n)
        THEN LET n == CHOOSE m \in 0 .. (tree.total_non_empty_pieces - 1) :
                          Names(resp.index, m)
             IN  /\ resp.status = "200"
                 /\ resp.content = base64_encode(pieces[n + 1])
                 /\ resp.proof = proof(tree, n, overflow_checks).val
        ELSE resp.status = "400"

\* C7 for the requests whose index is a number.
NumericPieceRequestAnswered ==
    (resp.op = "get_piece" /\ parse_usize(resp.index) # None)
        => C7_PieceRequestAnswered

ReadFrame ==
    /\ (Built => tree' = tree)
    /\ (pc = "serving" => trees' = trees)
    /\ \A w \in Workers : app_data[w].up => app_data'[w] = app_data[w]

\* C8: once new has returned, no step (proof, uncle_traversal, the content
\* lookup, get_hashes, get_piece, by any worker in any order) changes the
\* tree, the registry or a worker's copy of the registry.
C8_ReadsChangeNothing == [][ReadFrame]_vars

C8_Witness ==
    /\ resp.op = "get_piece"
    /\ resp.status = "200"
    /\ \A w \in Workers : app_data[w].up /\ app_data[w].trees = trees
    /\ trees[resp.hash] = tree
    /\ tree.nodes = result_data

\* the position of index i in the log of writes, 0 when it was not written
Position(i) ==
    IF \E k \in 1 .. Len(write_log) : write_log[k] = i
    THEN CHOOSE k \in 1 .. Len(write_log) : write_log[k] = i
    ELSE 0

\* C9: in populate_tree's sweep no index is written twice, only indices in
\* [1, L) are written, each after its two children got their final digests
\* (a child is a leaf or was written earlier, and the node holds the hash of
\* what its children hold now), and the loop ends with the queue empty and
\* every index in [1, L) written.
C9_SweepWritesEachNodeOnce ==
    pc \in {"populate_loop", "built", "serving"} =>
        LET L == Len(pieces)
        IN  /\ \A j, k \in 1 .. Len(write_log) :
                  write_log[j] = write_log[k] => j = k
            /\ \A k \in 1 .. Len(write_log) :
                  LET i == write_log[k]
                  IN  /\ i \in 1 .. (L - 1)
                      /\ \A c \in {2 * i, 2 * i + 1} :
                            c >= L \/ (Position(c) > 0 /\ Position(c) < k)
                      /\ At(result_data, i) =
                            Sha256(At(result_data, 2 * i) \o At(result_data, 2 * i + 1))
            /\ \A i \in L .. (2 * L - 1) :
                  At(result_data, i) = hash_leaf(pieces[i - L + 1])
            /\ (2 * L >= 1 => At(result_data, 0) = EmptyVec)
            /\ Built => (queue = << >> /\ \A i \in 1 .. (L - 1) : Position(i) > 0)

C9_Witness ==
    /\ pc = "built"
    /\ Len(pieces) = 8
    /\ Len(write_log) = 7
    /\ queue = << >>

\* the sibling of x's parent
SiblingOfParent(x) ==
    LET parent == x \div 2 IN IF parent % 2 = 0 THEN parent + 1 ELSE parent - 1

\* C10 as amended: get_uncle(x) is None exactly when x has no grandparent
\* (x is 0, the root, or a child of the root: x < 4); for every other x,
\* those whose grandparent is the root included, it is the index of the
\* sibling of x's parent.
C10_UncleUndefinedWithoutGrandparent ==
    resp.op = "get_uncle" =>
        /\ (resp.status = "None") <=> (RespIndex < 4)
        /\ resp.status = "Some" => resp.value = SiblingOfParent(RespIndex)

C10_Witness ==
    /\ resp.op = "get_uncle"
    /\ RespIndex = 6
    /\ resp.status = "Some"
    /\ resp.value = 2

\* C10 as stated, for the nodes below the root: for every node index
\* x >= 2, get_uncle(x) is None exactly when x's parent or x's grandparent
\* is the root (index 1), and the sibling of x's parent otherwise.
C10_UncleUndefinedNearRoot ==
    (resp.op = "get_uncle" /\ RespIndex >= 2) =>
        /\ (resp.status = "None") <=> (RespIndex \div 2 = 1 \/ RespIndex \div 4 = 1)
        /\ resp.status = "Some" => resp.value = SiblingOfParent(RespIndex)

=============================================================================
